---- MODULE Spec2Model ----
(***************************************************************************)
(* A model of mlly's src/lib/index.mjs: the specifier resolver (_resolve   *)
(* and its helpers) and the source rewriter (transformModule,              *)
(* resolveImports, evalModule, loadModule).                                *)
(*                                                                         *)
(* Strings are sequences of one-character strings, so that the regular     *)
(* expressions and string conversions of the source are computed on the    *)
(* characters and not assumed.                                             *)
(***************************************************************************)
EXTENDS Integers, Sequences, FiniteSets, TLC

\* ------------------------------------------------------------------ bounds

\* Longest extension list a caller passes in opts.extensions.
MaxExts == 2
\* Most pieces a caller's specifier is put together from.
MaxIdParts == 2

\* ----------------------------------------------------------------- strings

RECURSIVE Concat(_)
\* The concatenation of a sequence of strings.
Concat(ss) == IF ss = <<>> THEN <<>> ELSE Head(ss) \o Concat(Tail(ss))

\* String.prototype.startsWith, as fileURLToPath uses it.
startsWith(s, p) == Len(s) >= Len(p) /\ SubSeq(s, 1, Len(p)) = p

\* Whether the literal p occurs in s at position i.
OccursAt(s, p, i) ==
    /\ i >= 1
    /\ i + Len(p) - 1 <= Len(s)
    /\ SubSeq(s, i, i + Len(p) - 1) = p

\* Whether the literal p occurs somewhere in s (an unanchored literal regex).
includes(s, p) == \E i \in 1..(Len(s) + 1) : OccursAt(s, p, i)

FILE_SCHEME == <<"f", "i", "l", "e", ":", "/", "/">>
NODE_PREFIX == <<"n", "o", "d", "e", ":">>

\* ------------------------------------------------------------------- utils

\* normalizeSlash: every backslash becomes a forward slash.
normalizeSlash(str) == [i \in 1..Len(str) |-> IF str[i] = "\\" THEN "/" ELSE str[i]]

\* url.fileURLToPath of the host on a file:// URL: the path after the scheme.
_fileURLToPath(id) == SubSeq(id, Len(FILE_SCHEME) + 1, Len(id))

\* url.pathToFileURL(path).toString() of the host.
pathToFileURL(path) == FILE_SCHEME \o path

\* The exported fileURLToPath.
fileURLToPath(id) ==
    IF ~startsWith(id, FILE_SCHEME)
    THEN normalizeSlash(id)
    ELSE normalizeSlash(_fileURLToPath(id))

\* The names of module.builtinModules the model knows.
BUILTIN_MODULES == { <<"f", "s">>, <<"u", "r", "l">> }


\* A protocol test that forgot the data scheme.
PROTOCOLS_NoData ==
    { <<"n", "o", "d", "e">>, <<"h", "t", "t", "p">>, <<"h", "t", "t", "p", "s">> }

\* The alternation (node|data|http|https) of the protocol test.
PROTOCOLS ==
    { <<"n", "o", "d", "e">>, <<"d", "a", "t", "a">>,
      <<"h", "t", "t", "p">>, <<"h", "t", "t", "p", "s">> }

\* /(node|data|http|https):/.test(id): the pattern is not anchored.
HasProtocol(id) == \E w \in PROTOCOLS : includes(id, w \o <<":">>)

\* /(node|data|http|https|file):/.test(id) of normalizeid.
HasProtocolOrFile(id) ==
    \E w \in PROTOCOLS \cup { <<"f", "i", "l", "e">> } : includes(id, w \o <<":">>)

normalizeid(id) ==
    IF HasProtocolOrFile(id) THEN id
    ELSE IF id \in BUILTIN_MODULES THEN NODE_PREFIX \o id
    ELSE <<"f", "i", "l", "e", ":", "/", "/">> \o normalizeSlash(id)

\* ------------------------------------------------------------ the resolver

DEFAULT_CONDITIONS_SET == {"node", "import"}
\* pathToFileURL(process.cwd()), printed.
DEFAULT_FROM == <<"f", "i", "l", "e", ":", "/", "/", "/", "c", "w", "d">>
DEFAULT_EXTENSIONS ==
    << <<".", "m", "j", "s">>, <<".", "c", "j", "s">>,
       <<".", "j", "s">>, <<".", "j", "s", "o", "n">> >>
NOT_FOUND_ERRORS ==
    {"ERR_MODULE_NOT_FOUND", "ERR_UNSUPPORTED_DIR_IMPORT", "MODULE_NOT_FOUND"}

\* The error codes the host's moduleResolve throws in the model: the three the
\* source absorbs and two it does not.
HOST_ERROR_CODES ==
    NOT_FOUND_ERRORS \cup {"ERR_INVALID_MODULE_SPECIFIER", "ERR_PACKAGE_PATH_NOT_EXPORTED"}

\* The directories the host finds modules in: /l is a symbolic link to /r.
HostDirs == { <<"/", "l">>, <<"/", "r">> }

\* fs.realpathSync of the host: the link /l is dereferenced to /r.
realpathSync(path) ==
    IF startsWith(path, <<"/", "l", "/">>)
    THEN <<"/", "r">> \o SubSeq(path, 3, Len(path))
    ELSE path

\* What one call of the host's moduleResolve(id, from, conditions) can do: return
\* the URL of the file it found, or throw an error with a code.
moduleResolve(cand) ==
    { [threw |-> FALSE, url |-> FILE_SCHEME \o d \o <<"/">> \o cand, code |-> ""]
        : d \in HostDirs }
    \cup { [threw |-> TRUE, url |-> <<>>, code |-> c] : c \in HOST_ERROR_CODES }


\* A _tryModuleResolve that turns every error of the host into null.
_tryModuleResolve_Swallow(o) ==
    IF ~o.threw THEN [threw |-> FALSE, value |-> o.url, code |-> ""]
    ELSE [threw |-> FALSE, value |-> <<>>, code |-> ""]

\* _tryModuleResolve on the outcome o of moduleResolve: a not-found error becomes
\* null (the empty value), any other error is thrown again.
_tryModuleResolve(o) ==
    IF ~o.threw THEN [threw |-> FALSE, value |-> o.url, code |-> ""]
    ELSE IF o.code \notin NOT_FOUND_ERRORS
         THEN [threw |-> TRUE, value |-> <<>>, code |-> o.code]
         ELSE [threw |-> FALSE, value |-> <<>>, code |-> ""]


\* A resolver that tries the index candidates before the plain ones.
PREFIXES_IndexFirst == << <<"/", "i", "n", "d", "e", "x">>, <<>> >>

\* The outer loop of _resolve: for (const prefix of ['', '/index']).
PREFIXES == << <<>>, <<"/", "i", "n", "d", "e", "x">> >>

\* opts.conditions ? new Set(opts.conditions) : DEFAULT_CONDITIONS_SET
\* (an option is the empty set when absent, and holds its value otherwise).
conditionsSet(o) ==
    IF o.conditions = {} THEN DEFAULT_CONDITIONS_SET ELSE CHOOSE c \in o.conditions : TRUE

\* opts.from ? normalizeid(opts.from) : DEFAULT_FROM (the empty string is falsy).
effectiveFrom(o) == IF o.from # <<>> THEN normalizeid(o.from) ELSE DEFAULT_FROM

\* opts.extensions || DEFAULT_EXTENSIONS (an empty array is truthy).
extensionsOf(o) ==
    IF o.extensions = {} THEN DEFAULT_EXTENSIONS ELSE CHOOSE e \in o.extensions : TRUE

\* The candidate of the inner loop body: id + prefix + ext.
candidate(i, o, p, e) == i \o PREFIXES[p] \o extensionsOf(o)[e]

\* What a call has produced: nothing yet, a returned value or a thrown error.
NoResult ==
    [kind |-> "none", value |-> <<>>, code |-> "", thrownBy |-> "",
     msgId |-> <<>>, msgFrom |-> <<>>]
Returned(v) == [NoResult EXCEPT !.kind = "return", !.value = v]
\* An error of the host, thrown on unchanged.
Rethrown(c) == [NoResult EXCEPT !.kind = "throw", !.code = c, !.thrownBy = "moduleResolve"]
\* new Error(`Cannot find module ${id} imported from ${from}`), code ERR_MODULE_NOT_FOUND.
NotFoundError(i, f) ==
    [NoResult EXCEPT !.kind = "throw", !.code = "ERR_MODULE_NOT_FOUND",
                     !.thrownBy = "_resolve", !.msgId = i, !.msgFrom = f]

\* The pieces the model's specifiers are put together from.
IdPieces ==
    { <<"/", "a">>, <<"h", "t", "t", "p", ":">>,
      <<"h", "t", "t", "p", "s", ":">>, <<"d", "a", "t", "a", ":">>,
      <<"n", "o", "d", "e", ":">>, <<"f", "i", "l", "e", ":", "/", "/">> }
\* The specifiers a caller passes: the builtin names, and what the pieces make.
Ids ==
    BUILTIN_MODULES
    \cup { Concat(parts) : parts \in UNION { [1..n -> IdPieces] : n \in 1..MaxIdParts } }

ExtPool == { <<".", "j", "s">>, <<".", "t", "s">> }
ExtLists == UNION { [1..n -> ExtPool] : n \in 0..MaxExts }

\* The options objects a caller of resolveSync passes.
ResolveOpts ==
    [ from : { <<>>, <<"/", "b">> },
      conditions : { {} },
      extensions : { {} } \cup { {l} : l \in ExtLists } ]
    \cup { [from |-> <<>>, conditions |-> { {"require"} }, extensions |-> {}] }

VARIABLES
    id,         \* the specifier of the running resolveSync call
    opts,       \* its options
    pc,         \* where _resolve is: "start", "fallback", "found", "done"
    pi, ei,     \* the indexes of the two loops of _resolve
    attempts,   \* the calls of moduleResolve so far, and whether each found a file
    errs,       \* the error codes moduleResolve has thrown in this call
    resolved,   \* the local `resolved`: a URL, or empty for null
    result,     \* what the call returned or threw
    round,      \* 1, or 2 when the caller resolves the value returned before
    orig        \* the specifier of the first call

rvars == <<id, opts, pc, pi, ei, attempts, errs, resolved, result, round, orig>>

VARIABLES
    entry,      \* the exported function the caller called
    heap,       \* the options objects: the caller's, and the one loadModule makes
    optsRef,    \* which object the parameter `opts` of the running function is
    given,      \* the caller's options as they were when it called
    passed,     \* the options as transformModule received them
    source,     \* the source text the rewriter was given
    code,       \* the local `code`
    tpc,        \* where the call is
    uniqueImports,
    calls,      \* the calls of resolve so far: specifier, opts.from, whether
                \* resolveSync threw, and the promise's outcome
    settled,    \* the indexes of the calls whose promise has settled
    resolvedMap,\* the Map `resolved`, as pairs <<id, url>>
    imports,    \* where ESM_IMPORT_RE matched in `source`, and what
    subs,       \* where the replace of resolveImports matched, and what
    tresult     \* what the call delivered, or the rejection

tvars == <<entry, heap, optsRef, given, passed, source, code, tpc, uniqueImports,
           calls, settled, resolvedMap, imports, subs, tresult>>
vars == <<rvars, tvars>>

RInit ==
    /\ id \in Ids
    /\ opts \in ResolveOpts
    /\ pc = "start"
    /\ pi = 1
    /\ ei = 1
    /\ attempts = <<>>
    /\ errs = {}
    /\ resolved = <<>>
    /\ result = NoResult
    /\ round = 1
    /\ orig = id
    \* the rewriter is at rest
    /\ entry = "none"
    /\ heap = [r \in {"caller", "fresh"} |->
                 [from |-> <<>>, url |-> <<>>, conditions |-> {}, extensions |-> {}]]
    /\ optsRef = "caller"
    /\ given = heap["caller"]
    /\ passed = heap["caller"]
    /\ source = <<>>
    /\ code = <<>>
    /\ tpc = "idle"
    /\ uniqueImports = <<>>
    /\ calls = <<>>
    /\ settled = {}
    /\ resolvedMap = {}
    /\ imports = <<>>
    /\ subs = <<>>
    /\ tresult = NoResult

\* The call of moduleResolve that _tryModuleResolve makes for cand.
HostCall(cand) ==
    [id |-> cand, from |-> effectiveFrom(opts), conditions |-> conditionsSet(opts),
     found |-> FALSE]

\* Lines 48-51: a specifier the protocol test matches is returned as it is.
SkipProtocol ==
    /\ pc = "start"
    /\ HasProtocol(id)
    /\ result' = Returned(id)
    /\ pc' = "done"
    /\ UNCHANGED <<id, opts, pi, ei, attempts, errs, resolved, round, orig>>
    /\ UNCHANGED tvars

\* Lines 53-56: a builtin gets the node: prefix.
SkipBuiltin ==
    /\ pc = "start"
    /\ ~HasProtocol(id)
    /\ id \in BUILTIN_MODULES
    /\ result' = Returned(NODE_PREFIX \o id)
    /\ pc' = "done"
    /\ UNCHANGED <<id, opts, pi, ei, attempts, errs, resolved, round, orig>>
    /\ UNCHANGED tvars

\* The state after _tryModuleResolve(cand) met the outcome o of the host; next is
\* where _resolve goes on when the attempt found nothing.
AfterAttempt(cand, o, nextPi, nextEi) ==
    LET t == _tryModuleResolve(o) IN
    /\ attempts' = Append(attempts, [HostCall(cand) EXCEPT !.found = ~o.threw])
    /\ errs' = IF o.threw THEN errs \cup {o.code} ELSE errs
    /\ IF t.threw
       THEN /\ result' = Rethrown(t.code)
            /\ pc' = "done"
            /\ UNCHANGED <<resolved, pi, ei>>
       ELSE IF t.value # <<>>
       THEN /\ resolved' = t.value
            /\ pc' = "found"
            /\ UNCHANGED <<result, pi, ei>>
       ELSE /\ resolved' = <<>>
            /\ pc' = "fallback"
            /\ pi' = nextPi
            /\ ei' = nextEi
            /\ UNCHANGED result
    /\ UNCHANGED <<id, opts, round, orig>>
    /\ UNCHANGED tvars

\* Lines 62-63: the literal specifier is tried first.
TrySimple ==
    /\ pc = "start"
    /\ ~HasProtocol(id)
    /\ id \notin BUILTIN_MODULES
    /\ \E o \in moduleResolve(id) : AfterAttempt(id, o, 1, 1)

\* Whether the loops of lines 67-73 have a candidate left at (pi, ei).
LoopHasNext == pi <= Len(PREFIXES) /\ ei <= Len(extensionsOf(opts))

\* Lines 67-73, one pass of the inner loop body.
TryExtension ==
    /\ pc = "fallback"
    /\ LoopHasNext
    /\ LET last == ei = Len(extensionsOf(opts)) IN
       \E o \in moduleResolve(candidate(id, opts, pi, ei)) :
           AfterAttempt(candidate(id, opts, pi, ei), o,
                        IF last THEN pi + 1 ELSE pi, IF last THEN 1 ELSE ei + 1)

\* Lines 76-81: nothing was found.
ThrowNotFound ==
    /\ pc = "fallback"
    /\ ~LoopHasNext
    /\ result' = NotFoundError(id, effectiveFrom(opts))
    /\ pc' = "done"
    /\ UNCHANGED <<id, opts, pi, ei, attempts, errs, resolved, round, orig>>
    /\ UNCHANGED tvars

\* Lines 83-85: the real path of what was found, as a file URL.
Canonicalize ==
    /\ pc = "found"
    /\ result' = Returned(pathToFileURL(realpathSync(fileURLToPath(resolved))))
    /\ pc' = "done"
    /\ UNCHANGED <<id, opts, pi, ei, attempts, errs, resolved, round, orig>>
    /\ UNCHANGED tvars

\* The caller resolves the value it got once more, with the same options.
ResolveAgain ==
    /\ pc = "done"
    /\ round = 1
    /\ result.kind = "return"
    /\ id' = result.value
    /\ round' = 2
    /\ pc' = "start"
    /\ pi' = 1
    /\ ei' = 1
    /\ attempts' = <<>>
    /\ errs' = {}
    /\ resolved' = <<>>
    /\ result' = NoResult
    /\ UNCHANGED <<opts, orig>>
    /\ UNCHANGED tvars

RNext ==
    \/ SkipProtocol
    \/ SkipBuiltin
    \/ TrySimple
    \/ TryExtension
    \/ ThrowNotFound
    \/ Canonicalize
    \/ ResolveAgain


\* What resolveSync(i, o) can return or throw, by lines 45-86: the early returns,
\* the URL of the real path of a candidate the host finds, an error of the host
\* that is no soft miss, or the NOT_FOUND error.
resolveSync(i, o) ==
    IF HasProtocol(i) THEN { Returned(i) }
    ELSE IF i \in BUILTIN_MODULES THEN { Returned(NODE_PREFIX \o i) }
    ELSE LET cands == {i} \cup { candidate(i, o, p, e) :
                                   p \in 1..Len(PREFIXES), e \in 1..Len(extensionsOf(o)) }
         IN  { Returned(pathToFileURL(realpathSync(fileURLToPath(h.url)))) :
                 h \in { x \in UNION { moduleResolve(c) : c \in cands } : ~x.threw } }
             \cup { Rethrown(c) : c \in HOST_ERROR_CODES \ NOT_FOUND_ERRORS }
             \cup { NotFoundError(i, effectiveFrom(o)) }

\* _perr: the rejection carries a new Error made from the thrown one, with its code.
_perr(r) == [r EXCEPT !.kind = "reject"]


\* A _pcall that fulfils with undefined where resolveSync threw.
_pcall_Swallow(r) ==
    IF r.kind = "throw"
    THEN [r EXCEPT !.kind = "return",
                   !.value = <<"u", "n", "d", "e", "f", "i", "n", "e", "d">>]
    ELSE r

\* _pcall(resolveSync, id, opts) on the outcome r of the call: a promise of the
\* value, or the rejection of _perr.
_pcall(r) == IF r.kind = "throw" THEN _perr(r) ELSE r

\* ------------------------------------------------------------ the rewriter

\* Most fragments a source text of the model is put together from.
MaxFrags == 2

IMPORT == <<"i", "m", "p", "o", "r", "t">>
FROM == <<" ", "f", "r", "o", "m", " ">>
EXPORT == <<"e", "x", "p", "o", "r", "t">>
META_URL == <<"i", "m", "p", "o", "r", "t", ".", "m", "e", "t", "a", ".", "u", "r", "l">>
\* What String(undefined) puts into the text for a key the Map does not hold.
UNDEFINED == <<"u", "n", "d", "e", "f", "i", "n", "e", "d">>

IsQuote(c) == c = "'" \/ c = "\""
\* \s of a regular expression, on the characters of the model.
IsSpace(c) == c \in {" ", "\n", "\t"}
\* What the dot of a regular expression does not match.
IsLineTerminator(c) == c = "\n"

Min(S) == CHOOSE x \in S : \A y \in S : x <= y

\* The index of the first quote of t at or after p, or 0.
NextQuote(t, p) ==
    IF \E q \in p..Len(t) : IsQuote(t[q])
    THEN Min({ q \in p..Len(t) : IsQuote(t[q]) })
    ELSE 0

\* The lookbehinds (?<=import .* from ['"]) and (?<=export .* from ['"]) at p.
FromClauseBefore(t, p, kw) ==
    /\ p >= 2
    /\ IsQuote(t[p - 1])
    /\ OccursAt(t, FROM, p - 1 - Len(FROM))
    /\ \E i \in 1..Len(t) :
          /\ OccursAt(t, kw \o <<" ">>, i)
          /\ i + Len(kw) + 1 <= p - 1 - Len(FROM)
          /\ \A k \in (i + Len(kw) + 1)..(p - 2 - Len(FROM)) : ~IsLineTerminator(t[k])

\* The lookbehind (?<=import\s*['"]) at p.
BareImportBefore(t, p) ==
    /\ p >= 2
    /\ IsQuote(t[p - 1])
    /\ \E j \in 1..Len(t) :
          /\ OccursAt(t, IMPORT, j)
          /\ j + Len(IMPORT) <= p - 1
          /\ \A k \in (j + Len(IMPORT))..(p - 2) : IsSpace(t[k])

\* The lookbehind (?<=import\s*\(['"]) at p.
DynamicImportBefore(t, p) ==
    /\ p >= 3
    /\ IsQuote(t[p - 1])
    /\ t[p - 2] = "("
    /\ \E j \in 1..Len(t) :
          /\ OccursAt(t, IMPORT, j)
          /\ j + Len(IMPORT) <= p - 2
          /\ \A k \in (j + Len(IMPORT))..(p - 3) : IsSpace(t[k])

\* Whether ESM_IMPORT_RE matches at p: one of its four alternatives, each a
\* lookbehind, the run [^'"]+ up to the next quote, and a lookahead.
ESM_IMPORT_RE(t, p) ==
    /\ ~IsQuote(t[p])
    /\ NextQuote(t, p) # 0
    /\ \/ FromClauseBefore(t, p, IMPORT)
       \/ FromClauseBefore(t, p, EXPORT)
       \/ BareImportBefore(t, p)
       \/ /\ DynamicImportBefore(t, p)
          /\ NextQuote(t, p) + 1 <= Len(t)
          /\ t[NextQuote(t, p) + 1] = ")"

RECURSIVE matchAll(_, _)
\* code.matchAll(ESM_IMPORT_RE) from position p on: where each match starts and
\* its text, in order.
matchAll(t, p) ==
    IF p > Len(t) THEN <<>>
    ELSE IF ESM_IMPORT_RE(t, p)
         THEN <<[at |-> p, text |-> SubSeq(t, p, NextQuote(t, p) - 1)]>>
              \o matchAll(t, NextQuote(t, p))
         ELSE matchAll(t, p + 1)

RECURSIVE Unique(_)
\* Array.from(new Set(xs)): the first occurrence of each element, in order.
Unique(xs) ==
    IF xs = <<>> THEN <<>>
    ELSE LET rest == Unique(SubSeq(xs, 1, Len(xs) - 1))
             x == xs[Len(xs)]
         IN  IF \E k \in 1..Len(rest) : rest[k] = x THEN rest ELSE Append(rest, x)

\* Whether the specifier pat, read as the source of a regular expression, matches
\* t at pos: a dot matches any character but a line terminator, any other
\* character of the model's specifiers matches itself.
PatternMatchesAt(t, pat, pos) ==
    /\ pos + Len(pat) - 1 <= Len(t)
    /\ \A k \in 1..Len(pat) :
          IF pat[k] = "." THEN ~IsLineTerminator(t[pos + k - 1])
          ELSE t[pos + k - 1] = pat[k]

\* The first alternative of (i1)|(i2)|... that matches at pos, or 0.
FirstAlternative(t, pats, pos) ==
    IF \E a \in 1..Len(pats) : PatternMatchesAt(t, pats[a], pos)
    THEN Min({ a \in 1..Len(pats) : PatternMatchesAt(t, pats[a], pos) })
    ELSE 0

\* resolved.get(key) as the replacement text: the value, or "undefined".
MapGet(map, key) ==
    IF \E e \in map : e[1] = key
    THEN (CHOOSE e \in map : e[1] = key)[2]
    ELSE UNDEFINED

RECURSIVE RegexMatches(_, _, _)
\* The matches of the global pattern built from pats in t, from pos on.
RegexMatches(t, pats, pos) ==
    IF pos > Len(t) THEN <<>>
    ELSE LET a == FirstAlternative(t, pats, pos) IN
         IF a = 0 THEN RegexMatches(t, pats, pos + 1)
         ELSE <<[at |-> pos, text |-> SubSeq(t, pos, pos + Len(pats[a]) - 1)]>>
              \o RegexMatches(t, pats, pos + Len(pats[a]))

RECURSIVE ReplaceMatches(_, _, _, _)
\* t from pos on, with each match of ms replaced by what the Map holds for it.
ReplaceMatches(t, pos, ms, map) ==
    IF ms = <<>> THEN SubSeq(t, pos, Len(t))
    ELSE SubSeq(t, pos, Head(ms).at - 1) \o MapGet(map, Head(ms).text)
         \o ReplaceMatches(t, Head(ms).at + Len(Head(ms).text), Tail(ms), map)

RECURSIVE ReplaceAll(_, _, _)
\* code.replace(/import\.meta\.url/g, by) and its like: every occurrence of the
\* literal lit, left to right, becomes by.
ReplaceAll(t, lit, by) ==
    IF \E i \in 1..Len(t) : OccursAt(t, lit, i)
    THEN LET i == Min({ k \in 1..Len(t) : OccursAt(t, lit, k) }) IN
         SubSeq(t, 1, i - 1) \o by \o ReplaceAll(SubSeq(t, i + Len(lit), Len(t)), lit, by)
    ELSE t


\* A resolveImports that passes opts on as they are.
resolveOpts_KeepFrom(o) == o

\* { ...opts, from: opts.url } of resolveImports.
resolveOpts(o) == [o EXCEPT !.from = o.url]

\* Lines 135-139: url and from default to each other, in the object passed.
defaultUrlAndFrom(o) ==
    IF o.url = <<>> /\ o.from # <<>> THEN [o EXCEPT !.url = o.from]
    ELSE IF o.url # <<>> /\ o.from = <<>> THEN [o EXCEPT !.from = o.url]
    ELSE o

\* The fragments the model's source texts are put together from.
Fragments ==
    { <<"i", "m", "p", "o", "r", "t", " ", "'", ".", "/", "a", "'", "\n">>,
      <<"i", "m", "p", "o", "r", "t", " ", "'", ".", "/", "a", "/", "b", "'", "\n">>,
      <<"i", "m", "p", "o", "r", "t", " ", "u", " ", "f", "r", "o", "m", " ", "'", "u", "r", "l", "'", "\n">>,
      <<"e", "x", "p", "o", "r", "t", " ", "*", " ", "f", "r", "o", "m", " ", "'", ".", "/", "a", "/", "b", "'", "\n">>,
      <<"i", "m", "p", "o", "r", "t", "(", "'", ".", "/", "a", "'", ")", "\n">>,
      <<"i", "m", "p", "o", "r", "t", ".", "m", "e", "t", "a", ".", "u", "r", "l", "\n">>,
      <<"/", "/", "x", "/", "a", "\n">> }
Texts == { Concat(fs) : fs \in UNION { [1..n -> Fragments] : n \in 0..MaxFrags } }

URL_F == <<"f", "i", "l", "e", ":", "/", "/", "/", "f">>
URL_U == <<"f", "i", "l", "e", ":", "/", "/", "/", "u">>
\* The options objects a caller of the rewriter passes.
TransformOpts ==
    [ from : { <<>>, URL_F },
      url : { <<>>, URL_U },
      conditions : { {} },
      extensions : { { << <<".", "j", "s">> >> } } ]
\* The specifier loadModule is called with.
MODULE_ID == <<".", "/", "m">>

Entries == {"transformModule", "resolveImports", "evalModule", "loadModule"}


Delivered(k, t) == [NoResult EXCEPT !.kind = k, !.value = t]

TInit ==
    /\ entry \in Entries
    /\ \E o \in TransformOpts :
          /\ heap = [r \in {"caller", "fresh"} |-> o]
          /\ given = o
          /\ passed = o
    /\ optsRef = "caller"
    /\ source \in Texts
    /\ code = source
    /\ tpc = CASE entry = "transformModule" -> "transformModule"
               [] entry = "resolveImports" -> "resolveImports"
               [] OTHER -> "start"
    /\ uniqueImports = <<>>
    /\ calls = <<>>
    /\ settled = {}
    /\ resolvedMap = {}
    /\ imports = <<>>
    /\ subs = <<>>
    /\ tresult = NoResult
    \* the resolver is at rest
    /\ id = <<>>
    /\ opts = [from |-> <<>>, conditions |-> {}, extensions |-> {}]
    /\ pc = "idle"
    /\ pi = 1
    /\ ei = 1
    /\ attempts = <<>>
    /\ errs = {}
    /\ resolved = <<>>
    /\ result = NoResult
    /\ round = 1
    /\ orig = <<>>

\* Lines 114-119: loadModule awaits readModule (resolve, then read the file) and
\* calls evalModule with a new object { url, ...opts }.
LoadModuleRead ==
    /\ tpc = "start"
    /\ entry = "loadModule"
    /\ \E r \in resolveSync(MODULE_ID, heap["caller"]) :
          LET p == _pcall(r) IN
          IF p.kind = "reject"
          THEN /\ tresult' = p
               /\ tpc' = "done"
               /\ UNCHANGED <<heap, optsRef, passed>>
          ELSE /\ heap' = [heap EXCEPT !["fresh"] =
                             [heap["caller"] EXCEPT !.url =
                                 IF heap["caller"].url # <<>> THEN heap["caller"].url
                                 ELSE p.value]]
               /\ optsRef' = "fresh"
               /\ passed' = heap'["fresh"]
               /\ tpc' = "transformModule"
               /\ UNCHANGED tresult
    /\ UNCHANGED <<entry, given, source, code, uniqueImports, calls, settled,
                   resolvedMap, imports, subs>>
    /\ UNCHANGED rvars

\* Lines 122-123: evalModule hands its own opts to transformModule.
EvalModuleCall ==
    /\ tpc = "start"
    /\ entry = "evalModule"
    /\ tpc' = "transformModule"
    /\ UNCHANGED <<entry, heap, optsRef, given, passed, source, code, uniqueImports,
                   calls, settled, resolvedMap, imports, subs, tresult>>
    /\ UNCHANGED rvars

\* Lines 133-142: the defaults are written into opts, then resolveImports is called.
TransformModuleDefaults ==
    /\ tpc = "transformModule"
    /\ heap' = [heap EXCEPT ![optsRef] = defaultUrlAndFrom(heap[optsRef])]
    /\ tpc' = "resolveImports"
    /\ UNCHANGED <<entry, optsRef, given, passed, source, code, uniqueImports,
                   calls, settled, resolvedMap, imports, subs, tresult>>
    /\ UNCHANGED rvars

\* Lines 158-165: the specifiers are extracted; with none the text is returned.
ResolveImportsExtract ==
    /\ tpc = "resolveImports"
    /\ imports' = matchAll(code, 1)
    /\ IF imports' = <<>>
       THEN /\ tpc' = "resolved"
            /\ UNCHANGED uniqueImports
       ELSE /\ uniqueImports' = Unique([k \in 1..Len(imports') |-> imports'[k].text])
            /\ tpc' = "map"
    /\ UNCHANGED <<entry, heap, optsRef, given, passed, source, code, calls, settled,
                   resolvedMap, subs, tresult>>
    /\ UNCHANGED rvars

\* Line 166, the map: each callback runs resolve for its specifier at once, up to
\* its await.
ResolveCall ==
    /\ tpc = "map"
    /\ LET k == Len(calls) + 1
           o == resolveOpts(heap[optsRef])
       IN  /\ \E r \in resolveSync(uniqueImports[k], o) :
                 calls' = Append(calls, [id |-> uniqueImports[k], from |-> o.from,
                                         threw |-> r.kind = "throw",
                                         outcome |-> _pcall(r)])
           /\ tpc' = IF k = Len(uniqueImports) THEN "await" ELSE "map"
    /\ UNCHANGED <<entry, heap, optsRef, given, passed, source, code, uniqueImports,
                   settled, resolvedMap, imports, subs, tresult>>
    /\ UNCHANGED rvars

\* Line 166, one promise settles: a value is put into the Map; a rejection
\* rejects Promise.all, and with it resolveImports and its callers.
Settle(k) ==
    /\ tpc = "await"
    /\ k \in 1..Len(calls)
    /\ k \notin settled
    /\ settled' = settled \cup {k}
    /\ IF calls[k].outcome.kind = "reject"
       THEN /\ tresult' = calls[k].outcome
            /\ tpc' = "done"
            /\ UNCHANGED resolvedMap
       ELSE /\ resolvedMap' = { e \in resolvedMap : e[1] # calls[k].id }
                                 \cup { <<calls[k].id, calls[k].outcome.value>> }
            /\ UNCHANGED <<tresult, tpc>>
    /\ UNCHANGED <<entry, heap, optsRef, given, passed, source, code, uniqueImports,
                   calls, imports, subs>>
    /\ UNCHANGED rvars

\* Lines 168-169: every promise was fulfilled; the pattern is built and applied.
ReplaceImports ==
    /\ tpc = "await"
    /\ settled = 1..Len(calls)
    /\ subs' = RegexMatches(code, uniqueImports, 1)
    /\ code' = ReplaceMatches(code, 1, subs', resolvedMap)
    /\ tpc' = "resolved"
    /\ UNCHANGED <<entry, heap, optsRef, given, passed, source, uniqueImports, calls,
                   settled, resolvedMap, imports, tresult>>
    /\ UNCHANGED rvars

\* resolveImports, called by itself, returns the text.
ResolveImportsReturn ==
    /\ tpc = "resolved"
    /\ entry = "resolveImports"
    /\ tresult' = Delivered("text", code)
    /\ tpc' = "done"
    /\ UNCHANGED <<entry, heap, optsRef, given, passed, source, code, uniqueImports,
                   calls, settled, resolvedMap, imports, subs>>
    /\ UNCHANGED rvars

\* Lines 144-149: import.meta.url is rewritten when opts.url is set; transformModule
\* returns the text.
RewriteMetaUrl ==
    /\ tpc = "resolved"
    /\ entry # "resolveImports"
    /\ code' = IF heap[optsRef].url # <<>>
               THEN ReplaceAll(code, META_URL, <<"'">> \o heap[optsRef].url \o <<"'">>)
               ELSE code
    /\ IF entry = "transformModule"
       THEN /\ tresult' = Delivered("text", code')
            /\ tpc' = "done"
       ELSE /\ tpc' = "import"
            /\ UNCHANGED tresult
    /\ UNCHANGED <<entry, heap, optsRef, given, passed, source, uniqueImports, calls,
                   settled, resolvedMap, imports, subs>>
    /\ UNCHANGED rvars

\* Line 124: the host imports the data: URL of the text; the module's own
\* evaluation may throw.
DynamicImport ==
    /\ tpc = "import"
    /\ \E ok \in BOOLEAN :
          tresult' = IF ok THEN Delivered("module", code)
                     ELSE [NoResult EXCEPT !.kind = "reject", !.code = "LOAD_FAILURE",
                                           !.thrownBy = "import"]
    /\ tpc' = "done"
    /\ UNCHANGED <<entry, heap, optsRef, given, passed, source, code, uniqueImports,
                   calls, settled, resolvedMap, imports, subs>>
    /\ UNCHANGED rvars

TNext ==
    \/ LoadModuleRead
    \/ EvalModuleCall
    \/ TransformModuleDefaults
    \/ ResolveImportsExtract
    \/ ResolveCall
    \/ \E k \in 1..Len(calls) : Settle(k)
    \/ ReplaceImports
    \/ ResolveImportsReturn
    \/ RewriteMetaUrl
    \/ DynamicImport

\* resolveSync called by itself.
Spec == RInit /\ [][RNext]_vars

\* The rewriter's entry points, with resolution by the outcomes of resolveSync.
SpecTransform == TInit /\ [][TNext]_vars

\* ------------------------------------------------- claims on the resolver

\* Whether s begins with one of the scheme words of ws followed by a colon.
BeginsWithScheme(s, ws) == \E w \in ws : startsWith(s, w \o <<":">>)
\* Whether one of the scheme markers the resolver knows occurs anywhere in s.
CarriesScheme(s) ==
    \E w \in { <<"n", "o", "d", "e", ":">>, <<"d", "a", "t", "a", ":">>,
               <<"h", "t", "t", "p", ":">>, <<"h", "t", "t", "p", "s", ":">> } :
        \E i \in 1..Len(s) : OccursAt(s, w, i)
NetworkOrData ==
    { <<"h", "t", "t", "p">>, <<"h", "t", "t", "p", "s">>, <<"d", "a", "t", "a">> }
FileWord == <<"f", "i", "l", "e">>
NodeWord == <<"n", "o", "d", "e">>

\* The extension list E of the call: the one passed, or the documented default.
ClaimedExtensions ==
    IF opts.extensions = {}
    THEN << <<".", "m", "j", "s">>, <<".", "c", "j", "s">>,
            <<".", "j", "s">>, <<".", "j", "s", "o", "n">> >>
    ELSE CHOOSE l \in opts.extensions : TRUE

\* The literal specifier, then id+e for each e of E, then id+'/index'+e for each.
ExpectedOrder ==
    LET E == ClaimedExtensions IN
    <<id>> \o [k \in 1..Len(E) |-> id \o E[k]]
           \o [k \in 1..Len(E) |-> id \o <<"/", "i", "n", "d", "e", "x">> \o E[k]]

\* The file URL of the real path of the file the host found for candidate c.
RealURLOf(c) == <<"f", "i", "l", "e", ":", "/", "/", "/", "r", "/">> \o c

\* C1: for a specifier that carries no scheme and is no builtin name, the host
\* is asked for the literal specifier, then specifier+e for each e of E in order,
\* then specifier+'/index'+e for each e of E in order; nothing is asked after an
\* attempt that succeeded, and the value returned is the URL of the candidate of
\* that first successful attempt.
C1_AttemptOrder ==
    (~CarriesScheme(id) /\ id \notin BUILTIN_MODULES) =>
        /\ Len(attempts) <= Len(ExpectedOrder)
        /\ \A k \in 1..Len(attempts) :
              /\ attempts[k].id = ExpectedOrder[k]
              /\ attempts[k].found => k = Len(attempts)
        /\ pc = "done" => attempts # <<>>
        /\ result.kind = "return" =>
              /\ attempts # <<>>
              /\ attempts[Len(attempts)].found
              /\ result.value = RealURLOf(attempts[Len(attempts)].id)

\* C1's case: the index fallback succeeded after the literal specifier and every
\* plain extension of a two-element list had missed.
C1_Witness ==
    /\ ~CarriesScheme(id) /\ id \notin BUILTIN_MODULES
    /\ opts.extensions # {}
    /\ Len(ClaimedExtensions) = 2
    /\ (CHOOSE l \in opts.extensions : TRUE)[1] # (CHOOSE l \in opts.extensions : TRUE)[2]
    /\ result.kind = "return"
    /\ Len(attempts) = 5

SoftMisses == {"ERR_MODULE_NOT_FOUND", "ERR_UNSUPPORTED_DIR_IMPORT", "MODULE_NOT_FOUND"}

\* The base location a call resolves from: opts.from as a file URL, or the
\* working directory's.
EffectiveBase ==
    IF opts.from = <<>>
    THEN <<"f", "i", "l", "e", ":", "/", "/", "/", "c", "w", "d">>
    ELSE <<"f", "i", "l", "e", ":", "/", "/">> \o opts.from

\* The call failed with kind NOT_FOUND, naming the specifier and the base.
FailedNotFound ==
    /\ result.kind = "throw"
    /\ result.thrownBy = "_resolve"
    /\ result.code = "ERR_MODULE_NOT_FOUND"
    /\ result.msgId = id
    /\ result.msgFrom = EffectiveBase

\* The literal attempt and every fallback candidate ended in a soft miss.
AllSoftMissed ==
    /\ Len(attempts) = 1 + 2 * Len(ClaimedExtensions)
    /\ \A k \in 1..Len(attempts) : ~attempts[k].found
    /\ errs \subseteq SoftMisses

\* C2: resolveSync fails with NOT_FOUND exactly when the literal attempt and every
\* fallback candidate ended in a soft miss; an error of the host outside the soft
\* misses ends the call at once with that very error, and no soft miss is ever
\* thrown on.
C2_NotFoundExactly ==
    /\ pc = "done" => (FailedNotFound <=> AllSoftMissed)
    /\ (errs \ SoftMisses # {}) =>
          /\ pc = "done"
          /\ result.kind = "throw"
          /\ result.thrownBy = "moduleResolve"
          /\ errs \ SoftMisses = {result.code}
    /\ (result.kind = "throw" /\ result.thrownBy = "moduleResolve") =>
          result.code \notin SoftMisses

\* C2's case: five attempts of a two-extension call all missed, one of them as
\* an unsupported directory import, and the call failed with NOT_FOUND.
C2_Witness ==
    /\ FailedNotFound
    /\ Len(attempts) = 5
    /\ "ERR_UNSUPPORTED_DIR_IMPORT" \in errs
    /\ opts.from # <<>>

\* C2's other case: an error outside the soft misses was thrown on.
C2_WitnessPropagated ==
    /\ result.kind = "throw"
    /\ result.thrownBy = "moduleResolve"
    /\ Len(attempts) = 3

C4_ResolvedIsRealPath ==
    (id \notin BUILTIN_MODULES
        /\ ~BeginsWithScheme(id, NetworkOrData \cup {FileWord, NodeWord})
        /\ result.kind = "return") =>
        /\ attempts # <<>>
        /\ attempts[Len(attempts)].found
        /\ result.value = RealURLOf(attempts[Len(attempts)].id)
        /\ result.value # id

\* The outcomes of resolveSync that the rewriter's specification draws from are
\* the ones the steps of _resolve end in.
SummaryAgrees == pc = "done" => result \in resolveSync(id, opts)

\* ------------------------------------------------- claims on the rewriter

\* The specifiers ESM_IMPORT_RE extracted from the source.
Extracted == { imports[k].text : k \in 1..Len(imports) }

\* resolveImports has applied its pattern to the text.
Rewritten == tpc \in {"resolved", "import", "done"} /\ imports # <<>> /\ subs # <<>>

\* The URL the one resolution call for specifier spec was fulfilled with.
UrlOf(spec) == (CHOOSE e \in resolvedMap : e[1] = spec)[2]

\* The occurrence of a specifier that ESM_IMPORT_RE found at imports[k] was
\* replaced, whole, by the URL its own resolution gave.
SiteReplaced(k) ==
    \E j \in 1..Len(subs) :
        /\ subs[j].at = imports[k].at
        /\ subs[j].text = imports[k].text
        /\ MapGet(resolvedMap, subs[j].text) = UrlOf(imports[k].text)

\* C5: every distinct extracted specifier is resolved by exactly one call however
\* often it occurs, and every occurrence of it is replaced by the URL of that call.
C5_OneCallPerSpecifier ==
    /\ tpc \in {"await", "resolved", "import", "done"} =>
          /\ Len(calls) = Cardinality(Extracted)
          /\ { calls[k].id : k \in 1..Len(calls) } = Extracted
    /\ Rewritten => \A k \in 1..Len(imports) : SiteReplaced(k)

\* The first half of C5 alone: one call for each distinct specifier.
C5_CallsAreDistinctSpecifiers ==
    tpc \in {"await", "resolved", "import", "done"} =>
        /\ Len(calls) = Cardinality(Extracted)
        /\ { calls[k].id : k \in 1..Len(calls) } = Extracted

\* C6: every fragment of the text that resolveImports substitutes is one of the
\* extracted specifiers, so that what is put in is always a URL of the Map, and
\* every extracted occurrence is substituted as a whole, also when one specifier
\* is a prefix of another or holds a pattern metacharacter.
C6_ExactSubstitution ==
    Rewritten =>
        /\ \A j \in 1..Len(subs) : subs[j].text \in Extracted
        /\ \A k \in 1..Len(imports) :
              \E j \in 1..Len(subs) :
                  subs[j].at = imports[k].at /\ subs[j].text = imports[k].text

\* The resolution of some extracted specifier failed.
SomeResolutionFailed == \E k \in 1..Len(calls) : calls[k].threw

\* C7: when the resolution of an extracted specifier fails, transformModule and
\* resolveImports never deliver a text and end rejected with the error of a
\* failing specifier, whatever else resolved and in whatever order.
C7_FailureRejects ==
    (entry \in {"transformModule", "resolveImports"} /\ SomeResolutionFailed) =>
        /\ tpc \in {"map", "await", "done"}
        /\ tresult.kind \in {"none", "reject"}
        /\ subs = <<>>
        /\ tpc = "done" =>
              /\ tresult.kind = "reject"
              /\ \E k \in 1..Len(calls) :
                    /\ calls[k].threw
                    /\ tresult.code = calls[k].outcome.code
                    /\ tresult.msgId = calls[k].outcome.msgId

\* C7's case: of two specifiers the first resolved and was put into the Map, the
\* second failed, and transformModule ended rejected.
C7_Witness ==
    /\ entry = "transformModule"
    /\ tpc = "done"
    /\ tresult.kind = "reject"
    /\ Len(calls) = 2
    /\ ~calls[1].threw
    /\ calls[2].threw
    /\ resolvedMap # {}

\* How often the literal lit occurs in t.
Count(t, lit) == Cardinality({ i \in 1..Len(t) : OccursAt(t, lit, i) })

\* C8: with a nominal URL known (url passed, or from alone), the text
\* transformModule returns holds import.meta.url nowhere and the single-quoted URL
\* wherever the source held it; with neither passed, import.meta.url is left as
\* it was.
C8_MetaUrlReplaced ==
    (entry = "transformModule" /\ tresult.kind = "text") =>
        LET known == IF given.url # <<>> THEN given.url ELSE given.from IN
        IF known # <<>>
        THEN /\ Count(tresult.value, META_URL) = 0
             /\ Count(tresult.value, <<"'">> \o known \o <<"'">>) = Count(source, META_URL)
        ELSE Count(tresult.value, META_URL) = Count(source, META_URL)

\* C9: the options object the caller passed to transformModule, evalModule or
\* loadModule holds what it held when the call was made.
C9_OptionsUntouched ==
    entry \in {"transformModule", "evalModule", "loadModule"} => heap["caller"] = given

\* C10 as stated: in transformModule every import is resolved from the `from`
\* passed when there is one, and from the url passed only when from is absent.
C10_ResolvedFromFrom_Stated ==
    entry # "resolveImports" =>
        \A k \in 1..Len(calls) :
            calls[k].from = IF passed.from # <<>> THEN passed.from ELSE passed.url

\* C10 as amended: in transformModule every import is resolved from the url
\* passed when there is one (also when a different from is passed with it), and
\* from the `from` passed only when url is absent.
C10_ResolvedFromUrl ==
    entry # "resolveImports" =>
        \A k \in 1..Len(calls) :
            calls[k].from = IF passed.url # <<>> THEN passed.url ELSE passed.from

\* C10's case: transformModule was given a from and a different url, and resolved
\* an import from the url.
C10_Witness ==
    /\ entry = "transformModule"
    /\ given.from = URL_F
    /\ given.url = URL_U
    /\ tpc = "done"
    /\ tresult.kind = "text"
    /\ Len(calls) >= 1
    /\ calls[1].from = URL_U

====
